---- MODULE Spec2Model ----
(***************************************************************************)
(* Automatic Channel Selection (src/ap/acs.c) as a state machine.          *)
(*                                                                         *)
(* The interface object (struct hostapd_iface) is the record `iface`; the  *)
(* handlers acs_init and acs_scan_complete are the actions.  Every         *)
(* function of acs.c is an operator of the same name; one that changes the *)
(* interface maps a machine record m = [iface, tr, drv, rv] to the machine *)
(* record after the call: `tr` is the sequence of observable events of the *)
(* handler that runs (calls of collaborators, error messages), `rv` the    *)
(* value the call returns.                                                 *)
(*                                                                         *)
(* long double values are exact rationals extended with the IEEE 754       *)
(* specials (+inf, -inf, NaN): rounding is not modelled, the input domains *)
(* are chosen so that every quotient and power the code computes is exact. *)
(***************************************************************************)
EXTENDS Integers, Sequences, FiniteSets, TLC

VARIABLES iface, trace, drv, ret

vars == <<iface, trace, drv, ret>>

----------------------------------------------------------------------------
(* long double arithmetic *)

Abs(x) == IF x < 0 THEN -x ELSE x

RECURSIVE Gcd(_, _)
Gcd(a, b) == IF b = 0 THEN a ELSE Gcd(b, a % b)

NaN == [k |-> "nan", n |-> 0, d |-> 1]
PInf == [k |-> "inf", n |-> 1, d |-> 1]
NInf == [k |-> "inf", n |-> -1, d |-> 1]

\* the finite value n/d (d # 0), in lowest terms with a positive denominator
Fin(n, d) ==
    LET g == Gcd(Abs(n), Abs(d))
        s == IF d < 0 THEN -1 ELSE 1
    IN  [k |-> "fin", n |-> (s * n) \div g, d |-> (s * d) \div g]

Ld(i) == Fin(i, 1)

Sign(x) == IF x.n > 0 THEN 1 ELSE IF x.n < 0 THEN -1 ELSE 0

LdNeg(x) == IF x.k = "nan" THEN NaN ELSE [x EXCEPT !.n = -x.n]

LdAdd(x, y) ==
    IF x.k = "nan" \/ y.k = "nan" THEN NaN
    ELSE IF x.k = "inf" /\ y.k = "inf" THEN (IF x.n = y.n THEN x ELSE NaN)
    ELSE IF x.k = "inf" THEN x
    ELSE IF y.k = "inf" THEN y
    ELSE Fin(x.n * y.d + y.n * x.d, x.d * y.d)

LdSub(x, y) == LdAdd(x, LdNeg(y))

LdMul(x, y) ==
    IF x.k = "nan" \/ y.k = "nan" THEN NaN
    ELSE IF x.k = "inf" \/ y.k = "inf"
         THEN (IF Sign(x) * Sign(y) = 0 THEN NaN
               ELSE IF Sign(x) * Sign(y) > 0 THEN PInf ELSE NInf)
    ELSE Fin(x.n * y.n, x.d * y.d)

\* x / y; the divisors of acs.c are differences and counts, so a zero divisor
\* is +0: finite/0 is an infinity of the dividend's sign and 0/0 is NaN
LdDiv(x, y) ==
    IF x.k = "nan" \/ y.k = "nan" THEN NaN
    ELSE IF x.k = "inf" /\ y.k = "inf" THEN NaN
    ELSE IF x.k = "inf"
         THEN (IF Sign(y) < 0 THEN LdNeg(x) ELSE x)
    ELSE IF y.k = "inf" THEN Ld(0)
    ELSE IF y.n = 0
         THEN (IF x.n = 0 THEN NaN ELSE IF x.n > 0 THEN PInf ELSE NInf)
    ELSE Fin(x.n * y.d, x.d * y.n)

\* x < y; every comparison with NaN is false
LdLt(x, y) ==
    IF x.k = "nan" \/ y.k = "nan" THEN FALSE
    ELSE IF x.k = "inf" /\ y.k = "inf" THEN x.n < y.n
    ELSE IF x.k = "inf" THEN x.n < 0
    ELSE IF y.k = "inf" THEN y.n > 0
    ELSE x.n * y.d < y.n * x.d

LdLe(x, y) == LdLt(x, y) \/ (x.k # "nan" /\ x = y)

RECURSIVE IntPow(_, _)
IntPow(b, e) == IF e = 0 THEN 1 ELSE b * IntPow(b, e - 1)

\* pow(b, x) for an integer base b > 1 and a finite x that is an integer; the
\* noise floors of the model keep every exponent of acs.c in that domain, and
\* an exponent outside it stops the check instead of yielding a wrong value
pow(b, x) ==
    IF x.k = "fin" /\ x.d = 1
    THEN (IF x.n >= 0 THEN Ld(IntPow(b, x.n)) ELSE Fin(1, IntPow(b, -x.n)))
    ELSE CHOOSE v \in {} : TRUE

----------------------------------------------------------------------------
(* data of the interface: struct freq_survey, struct hostapd_channel_data,  *)
(* struct hostapd_config and struct hostapd_iface, as far as acs.c uses them *)

SURVEY_HAS_NF == "SURVEY_HAS_NF"
SURVEY_HAS_CHAN_TIME == "SURVEY_HAS_CHAN_TIME"
SURVEY_HAS_CHAN_TIME_BUSY == "SURVEY_HAS_CHAN_TIME_BUSY"
SURVEY_HAS_CHAN_TIME_RX == "SURVEY_HAS_CHAN_TIME_RX"
SURVEY_HAS_CHAN_TIME_TX == "SURVEY_HAS_CHAN_TIME_TX"

HOSTAPD_CHAN_DISABLED == "HOSTAPD_CHAN_DISABLED"
HOSTAPD_CHAN_SURVEY_LIST_INITIALIZED == "HOSTAPD_CHAN_SURVEY_LIST_INITIALIZED"

HOSTAPD_MODE_IEEE80211B == "HOSTAPD_MODE_IEEE80211B"
HOSTAPD_MODE_IEEE80211G == "HOSTAPD_MODE_IEEE80211G"
HOSTAPD_MODE_IEEE80211A == "HOSTAPD_MODE_IEEE80211A"

\* enum hostapd_chan_status, as integers: acs_study switches on the integer
\* that hostapd_acs_completed returns
HOSTAPD_CHAN_VALID == 0
HOSTAPD_CHAN_INVALID == 1
HOSTAPD_CHAN_ACS == 2

VHT_CHANWIDTH_USE_HT == 0
VHT_CHANWIDTH_80MHZ == 1

acs_scan_complete_cb == "acs_scan_complete"

Survey(filled, nf, time, busy, rx, tx) ==
    [filled |-> filled, nf |-> nf, channel_time |-> time,
     channel_time_busy |-> busy, channel_time_rx |-> rx,
     channel_time_tx |-> tx]

Chan(chan, freq, flag) ==
    [chan |-> chan, freq |-> freq, flag |-> flag, survey_list |-> <<>>,
     min_nf |-> 0, survey_interference_factor |-> Ld(0)]

\* the event of a handler's entry: the handler's name and the configured
\* channel and center-frequency index it finds
Entry(name, ifc, pending) ==
    [e |-> name, pending |-> pending, channel |-> ifc.conf.channel,
     seg0 |-> ifc.conf.vht_oper_centr_freq_seg0_idx]

\* append an observable event to the handler's trace
Emit(m, ev) == [m EXCEPT !.tr = Append(@, ev)]

\* wpa_printf(MSG_ERROR, msg)
Error(m, msg) == Emit(m, [e |-> "wpa_printf", msg |-> msg])

----------------------------------------------------------------------------
(* acs.c *)

acs_clean_chan_surveys(chan) ==
    IF chan.survey_list = <<>> THEN chan
    ELSE [chan EXCEPT !.survey_list = <<>>]

\* acs_cleanup's loop body without "chan->min_nf = 0"
acs_cleanup_chan_keeps_min_nf(chan) ==
    [chan EXCEPT !.survey_list = <<>>,
                 !.flag = @ \cup {HOSTAPD_CHAN_SURVEY_LIST_INITIALIZED}]

acs_cleanup_chan(chan) ==
    LET c1 == IF HOSTAPD_CHAN_SURVEY_LIST_INITIALIZED \in chan.flag
              THEN acs_clean_chan_surveys(chan) ELSE chan
    IN  [c1 EXCEPT !.survey_list = <<>>,
                   !.flag = @ \cup {HOSTAPD_CHAN_SURVEY_LIST_INITIALIZED},
                   !.min_nf = 0]

acs_cleanup(m) ==
    Emit([m EXCEPT !.iface.channels =
                       [i \in DOMAIN @ |-> acs_cleanup_chan(@[i])],
                   !.iface.chans_surveyed = 0],
         [e |-> "acs_cleanup"])

\* acs_fail that logs and leaves the survey store as it is
acs_fail_no_cleanup(m) ==
    Error(Emit(m, [e |-> "acs_fail"]), "ACS: Failed to start")

acs_fail(m) ==
    acs_cleanup(Error(Emit(m, [e |-> "acs_fail"]), "ACS: Failed to start"))

acs_survey_interference_factor(survey, min_nf) ==
    LET has_busy == SURVEY_HAS_CHAN_TIME_BUSY \in survey.filled
        has_rx == SURVEY_HAS_CHAN_TIME_RX \in survey.filled
        has_tx == SURVEY_HAS_CHAN_TIME_TX \in survey.filled
        busy0 == IF has_busy THEN Ld(survey.channel_time_busy)
                 ELSE Ld(survey.channel_time_rx)
        total0 == Ld(survey.channel_time)
        busy == IF has_tx THEN LdSub(busy0, Ld(survey.channel_time_tx))
                ELSE busy0
        total == IF has_tx THEN LdSub(total0, Ld(survey.channel_time_tx))
                 ELSE total0
    IN  IF ~has_busy /\ ~has_rx THEN Ld(0)
        ELSE LdAdd(pow(10, LdDiv(Ld(survey.nf), Ld(5))),
                   LdMul(LdDiv(busy, total),
                         pow(2, LdSub(pow(10, LdDiv(Ld(survey.nf), Ld(10))),
                                      pow(10, LdDiv(Ld(min_nf), Ld(10)))))))

RECURSIVE SumFactors(_, _, _, _)
\* the loop of acs_survey_chan_interference_factor from record i on, acc being
\* chan->survey_interference_factor so far
SumFactors(list, i, min_nf, acc) ==
    IF i > Len(list) THEN acc
    ELSE SumFactors(list, i + 1, min_nf,
                    LdAdd(acc, acs_survey_interference_factor(list[i], min_nf)))

acs_survey_chan_interference_factor(ifc, chan) ==
    IF chan.survey_list = <<>> THEN chan
    ELSE IF HOSTAPD_CHAN_DISABLED \in chan.flag THEN chan
    ELSE [chan EXCEPT !.survey_interference_factor =
              LdDiv(SumFactors(chan.survey_list, 1, ifc.lowest_nf, Ld(0)),
                    Ld(Len(chan.survey_list)))]

\* acs_usable_chan without the test for an empty survey list
acs_usable_chan_unsurveyed(chan) == HOSTAPD_CHAN_DISABLED \notin chan.flag

acs_usable_chan(chan) ==
    /\ chan.survey_list # <<>>
    /\ HOSTAPD_CHAN_DISABLED \notin chan.flag

\* acs_usable_ht40_chan that allows every channel as the primary one
acs_usable_ht40_chan_any(chan) == TRUE

acs_usable_ht40_chan(chan) ==
    chan.chan \in {36, 44, 52, 60, 100, 108, 116, 124, 132, 149, 157, 184, 192}

acs_survey_is_sufficient(survey) ==
    /\ SURVEY_HAS_NF \in survey.filled
    /\ SURVEY_HAS_CHAN_TIME \in survey.filled
    /\ \/ SURVEY_HAS_CHAN_TIME_BUSY \in survey.filled
       \/ SURVEY_HAS_CHAN_TIME_RX \in survey.filled

\* the check that looks at the first record of every channel only
acs_first_surveys_are_sufficient(ifc) ==
    \A i \in DOMAIN ifc.channels :
        \/ HOSTAPD_CHAN_DISABLED \in ifc.channels[i].flag
        \/ ifc.channels[i].survey_list = <<>>
        \/ acs_survey_is_sufficient(ifc.channels[i].survey_list[1])

acs_surveys_are_sufficient(ifc) ==
    \A i \in DOMAIN ifc.channels :
        \/ HOSTAPD_CHAN_DISABLED \in ifc.channels[i].flag
        \/ \A s \in DOMAIN ifc.channels[i].survey_list :
               acs_survey_is_sufficient(ifc.channels[i].survey_list[s])

RECURSIVE ScoreFrom(_, _)
\* the loop of acs_survey_all_chans_intereference_factor from channel i on; a
\* "score" event records the channel and the records that were scored
ScoreFrom(m, i) ==
    IF i > Len(m.iface.channels) THEN m
    ELSE IF ~acs_usable_chan(m.iface.channels[i]) THEN ScoreFrom(m, i + 1)
    ELSE ScoreFrom(
             Emit([m EXCEPT !.iface.channels[i] =
                       acs_survey_chan_interference_factor(m.iface, @)],
                  [e |-> "score", c |-> i,
                   surveys |-> m.iface.channels[i].survey_list,
                   min_nf |-> m.iface.lowest_nf]),
             i + 1)

\* the scoring loop that stops after the first channel
acs_survey_first_chan_intereference_factor(m) ==
    IF ~acs_usable_chan(m.iface.channels[1]) THEN m
    ELSE Emit([m EXCEPT !.iface.channels[1] =
                   acs_survey_chan_interference_factor(m.iface, @)],
              [e |-> "score", c |-> 1,
               surveys |-> m.iface.channels[1].survey_list,
               min_nf |-> m.iface.lowest_nf])

acs_survey_all_chans_intereference_factor(m) == ScoreFrom(m, 1)

RECURSIVE FindChanFrom(_, _, _)
FindChanFrom(ifc, freq, i) ==
    IF i > Len(ifc.channels) THEN 0
    ELSE IF ~acs_usable_chan(ifc.channels[i]) THEN FindChanFrom(ifc, freq, i + 1)
    ELSE IF ifc.channels[i].freq = freq THEN i
    ELSE FindChanFrom(ifc, freq, i + 1)

\* the index of the first usable channel at freq, 0 for NULL
acs_find_chan(ifc, freq) == FindChanFrom(ifc, freq, 1)

\* n_chans of acs_find_ideal_chan
NChans(conf) ==
    IF conf.ieee80211ac /\ conf.vht_oper_chwidth = 1 THEN 4
    ELSE IF conf.ieee80211n /\ conf.secondary_channel # 0 THEN 2
    ELSE 1

\* the bonding loop that never looks for the channels above the primary one
BondFrom_no_lookup(ifc, chan, n_chans, j, factor) ==
    [j |-> n_chans, factor |-> factor]

RECURSIVE BondFrom(_, _, _, _, _)
\* the loop "for (j = 1; j < n_chans; j++)": the value of j and of factor when
\* the loop ends
BondFrom(ifc, chan, n_chans, j, factor) ==
    IF j >= n_chans THEN [j |-> j, factor |-> factor]
    ELSE LET adj == acs_find_chan(ifc, chan.freq + (j * 20))
         IN  IF adj = 0 THEN [j |-> j, factor |-> factor]
             ELSE BondFrom(ifc, chan, n_chans, j + 1,
                      LdAdd(factor,
                            ifc.channels[adj].survey_interference_factor))

\* factor += adj_chan->survey_interference_factor, when adj_chan is found
AddAdj(ifc, freq, factor) ==
    LET adj == acs_find_chan(ifc, freq)
    IN  IF adj # 0
        THEN LdAdd(factor, ifc.channels[adj].survey_interference_factor)
        ELSE factor

\* the adjacent channels of the primary channel only, whatever n_chans is
AdjacentFrom_primary_only(ifc, chan, n_chans, j, factor) ==
    AddAdj(ifc, chan.freq + 10,
      AddAdj(ifc, chan.freq + 5,
        AddAdj(ifc, chan.freq - 10,
          AddAdj(ifc, chan.freq - 5, factor))))

RECURSIVE AdjacentFrom(_, _, _, _, _)
\* the loop "for (j = 0; j < n_chans; j++)" over the overlapping channels
AdjacentFrom(ifc, chan, n_chans, j, factor) ==
    IF j >= n_chans THEN factor
    ELSE AdjacentFrom(ifc, chan, n_chans, j + 1,
             AddAdj(ifc, chan.freq + (j * 20) + 10,
               AddAdj(ifc, chan.freq + (j * 20) + 5,
                 AddAdj(ifc, chan.freq + (j * 20) - 10,
                   AddAdj(ifc, chan.freq + (j * 20) - 5, factor)))))

\* one pass of the channel loop that adds the overlapping channels on every
\* band, without the test of the hardware mode
Candidate_every_band(ifc, i, n_chans) ==
    LET chan == ifc.channels[i]
        bond == BondFrom(ifc, chan, n_chans, 1,
                         chan.survey_interference_factor)
    IN  IF ~acs_usable_chan(chan) THEN [ok |-> FALSE, factor |-> Ld(0)]
        ELSE IF /\ ifc.mode = HOSTAPD_MODE_IEEE80211A
                /\ ifc.conf.ieee80211n
                /\ ifc.conf.secondary_channel # 0
                /\ ~acs_usable_ht40_chan(chan)
             THEN [ok |-> FALSE, factor |-> Ld(0)]
        ELSE IF bond.j # n_chans THEN [ok |-> FALSE, factor |-> Ld(0)]
        ELSE [ok |-> TRUE,
              factor |-> AdjacentFrom(ifc, chan, n_chans, 0, bond.factor)]

\* one pass of the channel loop of acs_find_ideal_chan for channel i: whether
\* the channel reaches the comparison, and with which total
Candidate(ifc, i, n_chans) ==
    LET chan == ifc.channels[i]
        bond == BondFrom(ifc, chan, n_chans, 1,
                         chan.survey_interference_factor)
    IN  IF ~acs_usable_chan(chan) THEN [ok |-> FALSE, factor |-> Ld(0)]
        ELSE IF /\ ifc.mode = HOSTAPD_MODE_IEEE80211A
                /\ ifc.conf.ieee80211n
                /\ ifc.conf.secondary_channel # 0
                /\ ~acs_usable_ht40_chan(chan)
             THEN [ok |-> FALSE, factor |-> Ld(0)]
        ELSE IF bond.j # n_chans THEN [ok |-> FALSE, factor |-> Ld(0)]
        ELSE IF ifc.mode \in {HOSTAPD_MODE_IEEE80211B, HOSTAPD_MODE_IEEE80211G}
             THEN [ok |-> TRUE,
                   factor |-> AdjacentFrom(ifc, chan, n_chans, 0, bond.factor)]
        ELSE [ok |-> TRUE, factor |-> bond.factor]

\* if (!ideal_chan || factor < ideal_factor)
Better(ideal_chan, factor, ideal_factor) ==
    ideal_chan = 0 \/ LdLt(factor, ideal_factor)

RECURSIVE IdealFrom(_, _, _, _, _)
IdealFrom(ifc, n_chans, i, ideal_chan, ideal_factor) ==
    IF i > Len(ifc.channels) THEN ideal_chan
    ELSE LET cand == Candidate(ifc, i, n_chans)
         IN  IF cand.ok /\ Better(ideal_chan, cand.factor, ideal_factor)
             THEN IdealFrom(ifc, n_chans, i + 1, i, cand.factor)
             ELSE IdealFrom(ifc, n_chans, i + 1, ideal_chan, ideal_factor)

\* acs_find_ideal_chan without the HT40- rejection
acs_find_ideal_chan_ht40minus(ifc) ==
    IdealFrom(ifc, NChans(ifc.conf), 1, 0, Ld(0))

\* the index of the ideal channel, 0 for NULL
acs_find_ideal_chan(ifc) ==
    IF ifc.conf.ieee80211n /\ ifc.conf.secondary_channel = -1 THEN 0
    ELSE IdealFrom(ifc, NChans(ifc.conf), 1, 0, Ld(0))

\* acs_adjust_vht_sec_chan that takes the 80 MHz width for the use-HT one
acs_adjust_vht_sec_chan_plus2(ifc) ==
    IF ifc.conf.ieee80211ac
          /\ ifc.conf.vht_oper_chwidth
                 \in {VHT_CHANWIDTH_USE_HT, VHT_CHANWIDTH_80MHZ}
    THEN [ifc EXCEPT !.conf.vht_oper_centr_freq_seg0_idx =
                         ifc.conf.channel + 2]
    ELSE ifc

acs_adjust_vht_sec_chan(ifc) ==
    IF ~ifc.conf.ieee80211ac THEN ifc
    ELSE IF ifc.conf.vht_oper_chwidth = VHT_CHANWIDTH_USE_HT
         THEN [ifc EXCEPT !.conf.vht_oper_centr_freq_seg0_idx =
                              ifc.conf.channel + 2]
    ELSE IF ifc.conf.vht_oper_chwidth = VHT_CHANWIDTH_80MHZ
         THEN [ifc EXCEPT !.conf.vht_oper_centr_freq_seg0_idx =
                              ifc.conf.channel + 6]
    ELSE ifc

acs_study_survey_based(m) ==
    IF m.iface.chans_surveyed = 0
    THEN [Error(m, "ACS: Unable to collect survey data") EXCEPT !.rv = -1]
    ELSE IF ~acs_surveys_are_sufficient(m.iface)
         THEN [Error(m, "ACS: Surveys have insufficient data")
                  EXCEPT !.rv = -1]
    ELSE [acs_survey_all_chans_intereference_factor(m) EXCEPT !.rv = 0]

acs_study_options(m) ==
    LET m1 == acs_study_survey_based(m)
    IN  IF m1.rv = 0 THEN m1 ELSE [m1 EXCEPT !.rv = -1]

\* the switch with HOSTAPD_CHAN_ACS taken for success too
acs_completed_switch_acs_ok(m, completed) ==
    IF completed \in {HOSTAPD_CHAN_VALID, HOSTAPD_CHAN_ACS}
    THEN acs_cleanup(m)
    ELSE acs_fail(Error(m, "ACS: Possibly channel configuration is invalid"))

\* the switch of acs_study on what hostapd_acs_completed returned
acs_completed_switch(m, completed) ==
    IF completed = HOSTAPD_CHAN_VALID THEN acs_cleanup(m)
    ELSE acs_fail(Error(m, "ACS: Possibly channel configuration is invalid"))

\* iface->conf->channel = ideal_chan->chan; acs_adjust_vht_sec_chan(iface);
\* then hostapd_acs_completed(iface), which returns `completed`
acs_commit(m, ideal_chan, completed) ==
    LET ifc1 == [m.iface EXCEPT !.conf.channel =
                                    m.iface.channels[ideal_chan].chan]
        ifc2 == acs_adjust_vht_sec_chan(ifc1)
    IN  acs_completed_switch(
            Emit([m EXCEPT !.iface = ifc2],
                 [e |-> "hostapd_acs_completed", r |-> completed,
                  channel |-> ifc2.conf.channel,
                  seg0 |-> ifc2.conf.vht_oper_centr_freq_seg0_idx]),
            completed)

\* acs_study that returns once the channel is selected, leaving the commit
\* to a later invocation
acs_study_returns_selected(m, completed) ==
    LET m1 == acs_study_options(m)
        ideal_chan == acs_find_ideal_chan(m1.iface)
    IN  IF m1.rv < 0
        THEN acs_fail(Error(m1, "ACS: All study options have failed"))
        ELSE Emit(m1, [e |-> "acs_find_ideal_chan", c |-> ideal_chan,
                       channels |-> m1.iface.channels])

\* acs_study that writes the configured channel before it knows whether a
\* channel was found
acs_study_writes_early(m, completed) ==
    LET m1 == acs_study_options(m)
        ideal_chan == acs_find_ideal_chan(m1.iface)
        m2 == Emit([m1 EXCEPT !.iface.conf.channel =
                                  m1.iface.channels[1].chan],
                   [e |-> "acs_find_ideal_chan", c |-> ideal_chan,
                    channels |-> m1.iface.channels])
    IN  IF m1.rv < 0
        THEN acs_fail(Error(m1, "ACS: All study options have failed"))
        ELSE IF ideal_chan = 0
             THEN acs_fail(Error(m2, "ACS: Failed to compute ideal channel"))
        ELSE acs_commit(m2, ideal_chan, completed)

acs_study(m, completed) ==
    LET m1 == acs_study_options(m)
        ideal_chan == acs_find_ideal_chan(m1.iface)
        m2 == Emit(m1, [e |-> "acs_find_ideal_chan", c |-> ideal_chan,
                        channels |-> m1.iface.channels])
    IN  IF m1.rv < 0
        THEN acs_fail(Error(m1, "ACS: All study options have failed"))
        ELSE IF ideal_chan = 0
             THEN acs_fail(Error(m2, "ACS: Failed to compute ideal channel"))
        ELSE acs_commit(m2, ideal_chan, completed)

\* the least element of a non-empty set of integers
MinOf(S) == CHOOSE x \in S : \A y \in S : x <= y

\* the noise floors of the records of a sequence
NfOf(list) == {list[s].nf : s \in DOMAIN list}

\* hostapd_drv_get_survey: the driver hands over its survey dump, dump[i]
\* being the records for channel i; a record of a disabled channel is dropped,
\* every other one is appended to its channel's list and counted, and the
\* channel's and the band's lowest noise floor follow the records
hostapd_drv_get_survey(m, dump, err) ==
    LET chans == m.iface.channels
        kept == [i \in DOMAIN chans |->
                    IF HOSTAPD_CHAN_DISABLED \in chans[i].flag THEN <<>>
                    ELSE dump[i]]
        n == LET RECURSIVE Count(_)
                 Count(i) == IF i = 0 THEN 0 ELSE Len(kept[i]) + Count(i - 1)
             IN  Count(Len(chans))
        lists == [i \in DOMAIN chans |-> chans[i].survey_list \o kept[i]]
        all_nf == UNION {NfOf(kept[i]) : i \in DOMAIN chans}
        old_nf == IF m.iface.chans_surveyed = 0 THEN {}
                  ELSE {m.iface.lowest_nf}
    IN  Emit([m EXCEPT
                !.iface.channels =
                    [i \in DOMAIN chans |->
                        IF kept[i] = <<>> THEN chans[i]
                        ELSE [chans[i] EXCEPT
                                 !.survey_list = lists[i],
                                 !.min_nf = MinOf(NfOf(lists[i]))]],
                !.iface.chans_surveyed = @ + n,
                !.iface.lowest_nf = IF all_nf = {} THEN @
                                    ELSE MinOf(all_nf \cup old_nf),
                !.rv = err],
             [e |-> "hostapd_drv_get_survey", err |-> err, dump |-> kept])

acs_scan_complete(m, dump, err, completed) ==
    LET m1 == hostapd_drv_get_survey(m, dump, err)
        m2 == IF m1.rv # 0
              THEN acs_fail(Error(m1, "ACS: Failed to get survey data"))
              ELSE m1
    IN  acs_study(m2, completed)

RECURSIVE FreqsFrom(_, _)
\* the frequency list acs_request_scan builds, from channel i on
FreqsFrom(chans, i) ==
    IF i > Len(chans) THEN <<0>>
    ELSE IF HOSTAPD_CHAN_DISABLED \in chans[i].flag THEN FreqsFrom(chans, i + 1)
    ELSE <<chans[i].freq>> \o FreqsFrom(chans, i + 1)

\* the process was killed in the handler: the last event is the signal
Crashed(m) == m.tr # <<>> /\ m.tr[Len(m.tr)].e = "SIGSEGV"

\* alloc_ok: whether os_malloc returns a buffer; scan_ok: whether
\* hostapd_driver_scan takes the request. The result of os_malloc is not
\* tested: with NULL the first store of the frequency list (a frequency, or
\* the terminating 0) goes through the null pointer, which is undefined
\* behaviour and kills the process before scan_cb is set.
acs_request_scan(m, alloc_ok, scan_ok) ==
    LET freqs == FreqsFrom(m.iface.channels, 1)
        m1 == Emit(m, [e |-> "os_malloc", ok |-> alloc_ok])
        m2 == Emit([m1 EXCEPT !.iface.scan_cb = acs_scan_complete_cb],
                   [e |-> "hostapd_driver_scan", freqs |-> freqs,
                    ok |-> scan_ok])
    IN  IF ~alloc_ok THEN Emit(m1, [e |-> "SIGSEGV"])
        ELSE IF ~scan_ok
        THEN [acs_cleanup(Error(m2, "ACS: Failed to request initial scan"))
                 EXCEPT !.rv = -1]
        ELSE [Emit(m2, [e |-> "os_free"])
                 EXCEPT !.drv.pending = @ + 1, !.rv = 0]

\* acs_init that ignores what acs_request_scan returns
acs_init_ignores_err(m, alloc_ok, scan_ok) ==
    LET m1 == acs_request_scan(acs_cleanup(m), alloc_ok, scan_ok)
    IN  IF Crashed(m1) THEN m1 ELSE [m1 EXCEPT !.rv = HOSTAPD_CHAN_ACS]

acs_init(m, alloc_ok, scan_ok) ==
    LET m1 == acs_request_scan(acs_cleanup(m), alloc_ok, scan_ok)
    IN  IF Crashed(m1) THEN m1
        ELSE IF m1.rv < 0 THEN [m1 EXCEPT !.rv = HOSTAPD_CHAN_INVALID]
        ELSE [m1 EXCEPT !.rv = HOSTAPD_CHAN_ACS]

----------------------------------------------------------------------------
(* bounded inputs *)

\* scan requests the driver holds at most at a time
MaxPending == 2

Flags(disabled) == IF disabled THEN {HOSTAPD_CHAN_DISABLED} ELSE {}

Confs ==
    [ieee80211n : BOOLEAN, secondary_channel : {-1, 0, 1},
     ieee80211ac : BOOLEAN, vht_oper_chwidth : {0, 1, 2},
     channel : {0}, vht_oper_centr_freq_seg0_idx : {0}]

Iface(mode, channels, conf) ==
    [mode |-> mode, channels |-> channels, conf |-> conf,
     chans_surveyed |-> 0, lowest_nf |-> 0, scan_cb |-> "NULL"]

\* what hostapd_acs_completed may return: the three enum values and -1
Completions ==
    {HOSTAPD_CHAN_VALID, HOSTAPD_CHAN_INVALID, HOSTAPD_CHAN_ACS, -1}

\* records: busy time 1 of 4; busy time 2 of 4; rx time 2 of 4 on a noisier
\* channel; no channel time at all; more tx time than rx time; and three
\* that lack a required field
Quiet ==
    Survey({SURVEY_HAS_NF, SURVEY_HAS_CHAN_TIME, SURVEY_HAS_CHAN_TIME_BUSY},
           0, 4, 1, 0, 0)
Busy ==
    Survey({SURVEY_HAS_NF, SURVEY_HAS_CHAN_TIME, SURVEY_HAS_CHAN_TIME_BUSY},
           0, 4, 2, 0, 0)
Noisy ==
    Survey({SURVEY_HAS_NF, SURVEY_HAS_CHAN_TIME, SURVEY_HAS_CHAN_TIME_RX},
           10, 4, 0, 2, 0)
Idle ==
    Survey({SURVEY_HAS_NF, SURVEY_HAS_CHAN_TIME, SURVEY_HAS_CHAN_TIME_BUSY},
           0, 0, 0, 0, 0)
TxHeavy ==
    Survey({SURVEY_HAS_NF, SURVEY_HAS_CHAN_TIME, SURVEY_HAS_CHAN_TIME_RX,
            SURVEY_HAS_CHAN_TIME_TX}, 0, 4, 0, 1, 2)
NoBusy == Survey({SURVEY_HAS_NF, SURVEY_HAS_CHAN_TIME}, 10, 4, 0, 0, 0)
NoNf ==
    Survey({SURVEY_HAS_CHAN_TIME, SURVEY_HAS_CHAN_TIME_BUSY}, 0, 4, 1, 0, 0)
NoTime == Survey({SURVEY_HAS_NF, SURVEY_HAS_CHAN_TIME_RX}, 0, 0, 0, 1, 0)

Machine == [iface |-> iface, tr |-> <<>>, drv |-> drv, rv |-> 0]

\* the handler returns: its trace ends with "return"; or the process was
\* killed in it: nothing is returned and the trace ends with the signal
Apply(m) ==
    /\ iface' = m.iface
    /\ trace' = IF Crashed(m) THEN m.tr ELSE Append(m.tr, [e |-> "return"])
    /\ drv' = m.drv
    /\ ret' = IF Crashed(m) THEN ret ELSE m.rv

\* the process is alive: no handler was killed
Alive == IF trace = <<>> THEN TRUE ELSE trace[Len(trace)].e # "SIGSEGV"

----------------------------------------------------------------------------
(* Spec: the interface from its allocation on, driven by the host *)

\* two channels 20 MHz apart, on 2.4 GHz and on 5 GHz
SpecTables ==
    {<<HOSTAPD_MODE_IEEE80211G,
       <<Chan(1, 2412, {}), Chan(5, 2432, Flags(d))>>>> : d \in BOOLEAN}
    \cup
    {<<HOSTAPD_MODE_IEEE80211A,
       <<Chan(36, 5180, {}), Chan(40, 5200, Flags(d))>>>> : d \in BOOLEAN}

\* the survey dumps of Spec: per channel no record, a sufficient one or an
\* insufficient one
SpecDumps(n_channels) == [1..n_channels -> {<<>>, <<Quiet>>, <<NoBusy>>}]

\* the configurations of Spec: no HT, HT40+, HT40-, and VHT with the use-HT,
\* the 80 MHz and the 160 MHz width
SpecConfs ==
    {conf \in Confs :
        \/ ~conf.ieee80211n /\ ~conf.ieee80211ac
              /\ conf.secondary_channel = 0 /\ conf.vht_oper_chwidth = 0
        \/ conf.ieee80211n /\ ~conf.ieee80211ac
              /\ conf.secondary_channel # 0 /\ conf.vht_oper_chwidth = 0
        \/ conf.ieee80211n /\ conf.ieee80211ac
              /\ conf.secondary_channel = 1}

Init ==
    /\ \E conf \in SpecConfs, t \in SpecTables :
           iface = Iface(t[1], t[2], conf)
    /\ trace = <<>>
    /\ drv = [pending |-> 0]
    /\ ret = 0

\* the host starts a run
AcsInit ==
    /\ Alive
    /\ drv.pending < MaxPending
    /\ \E alloc_ok \in BOOLEAN, scan_ok \in BOOLEAN :
           Apply(acs_init(Emit(Machine, Entry("acs_init", iface, drv.pending)),
                          alloc_ok, scan_ok))

\* the host calls acs_fail, which has external linkage, at any time
AcsFail ==
    /\ Alive
    /\ Apply([acs_fail(Machine) EXCEPT !.rv = 0])

\* the host's event loop delivers a scan-completed event to the callback
\* that is registered
ScanEvent ==
    /\ Alive
    /\ iface.scan_cb = acs_scan_complete_cb
    /\ \E dump \in SpecDumps(Len(iface.channels)),
          err \in {0, -1}, completed \in Completions :
           LET m0 == [Machine EXCEPT
                         !.drv.pending = IF @ > 0 THEN @ - 1 ELSE 0]
           IN  Apply([acs_scan_complete(
                          Emit(m0, Entry("acs_scan_complete", iface,
                                         drv.pending)),
                          dump, err, completed) EXCEPT !.rv = 0])

Next == AcsInit \/ AcsFail \/ ScanEvent

Spec == Init /\ [][Next]_vars

----------------------------------------------------------------------------
(* StudySpec: acs_study on the survey store, from the point of the callback *)
(* at which hostapd_drv_get_survey has returned 0                           *)

\* records the driver reports per channel at most
MaxSurveys == 2

RECURSIVE SeqsUpTo(_, _)
\* the sequences over S of length at most n
SeqsUpTo(S, n) ==
    IF n = 0 THEN {<<>>}
    ELSE LET shorter == SeqsUpTo(S, n - 1)
         IN  shorter \cup {Append(q, x) : q \in shorter, x \in S}

AllFilled ==
    {SURVEY_HAS_NF, SURVEY_HAS_CHAN_TIME, SURVEY_HAS_CHAN_TIME_BUSY,
     SURVEY_HAS_CHAN_TIME_RX, SURVEY_HAS_CHAN_TIME_TX}

\* every combination of reported fields, with times that make the busy time
\* smaller than, equal to and larger than the tx time, and the channel time
\* zero, equal to and larger than the tx time
RichRecords ==
    {Survey(f, nf, time, busy, rx, tx) :
        f \in SUBSET AllFilled, nf \in {0, 10}, time \in {0, 4},
        busy \in {0, 1}, rx \in {0, 2}, tx \in {0, 1, 2, 4}}

\* the callback after hostapd_drv_get_survey has taken `dump` and returned 0
Surveyed(mode, channels, conf, dump) ==
    LET ifc0 == [Iface(mode, channels, conf) EXCEPT
                    !.scan_cb = acs_scan_complete_cb]
        m0 == acs_cleanup([iface |-> ifc0, tr |-> <<>>,
                           drv |-> [pending |-> 0], rv |-> 0])
    IN  hostapd_drv_get_survey(
            [m0 EXCEPT !.tr = <<Entry("acs_scan_complete", ifc0, 1)>>],
            dump, 0)

NoHt ==
    [ieee80211n |-> FALSE, secondary_channel |-> 0, ieee80211ac |-> FALSE,
     vht_oper_chwidth |-> 0, channel |-> 0,
     vht_oper_centr_freq_seg0_idx |-> 0]

\* one channel with one record out of RichRecords
ScoreInputs ==
    {Surveyed(HOSTAPD_MODE_IEEE80211G, <<Chan(1, 2412, {})>>, NoHt,
              <<<<r>>>>) : r \in RichRecords}

\* two channels, each one disabled or not, with up to MaxSurveys records
ListInputs ==
    {Surveyed(HOSTAPD_MODE_IEEE80211G,
              <<Chan(1, 2412, Flags(d[1])), Chan(5, 2432, Flags(d[2]))>>,
              NoHt, dump) :
        d \in [1..2 -> BOOLEAN],
        dump \in [1..2 -> SeqsUpTo({Quiet, Noisy, NoBusy, NoTime},
                                   MaxSurveys)]}

\* four channels per band; on 2.4 GHz the first three overlap and the fourth
\* lies 20 MHz above the first, on 5 GHz they are 20 MHz apart, and on
\* 4.9 GHz channel 186 lies 10 MHz from channels 184 and 188
SelectTables ==
    {<<HOSTAPD_MODE_IEEE80211G,
       <<Chan(1, 2412, {}), Chan(2, 2417, Flags(d)),
         Chan(3, 2422, {}), Chan(5, 2432, {})>>>> : d \in BOOLEAN}
    \cup
    {<<HOSTAPD_MODE_IEEE80211B,
       <<Chan(1, 2412, {}), Chan(2, 2417, {}),
         Chan(3, 2422, {}), Chan(5, 2432, {})>>>>}
    \cup
    {<<HOSTAPD_MODE_IEEE80211A,
       <<Chan(36, 5180, {}), Chan(40, 5200, Flags(d)),
         Chan(44, 5220, {}), Chan(48, 5240, {})>>>> : d \in BOOLEAN}
    \cup
    {<<HOSTAPD_MODE_IEEE80211A,
       <<Chan(184, 4920, {}), Chan(186, 4930, {}),
         Chan(188, 4940, {}), Chan(192, 4960, {})>>>>}

\* every configuration, and per channel no record or one of three
SelectInputs ==
    {Surveyed(t[1], t[2], conf, dump) :
        t \in SelectTables, conf \in Confs,
        dump \in [1..4 -> {<<>>, <<Quiet>>, <<Busy>>, <<Idle>>}]}

\* every configuration on an interface whose configured channel and
\* center-frequency index hold earlier values, every channel with one record
CommitInputs ==
    {Surveyed(HOSTAPD_MODE_IEEE80211A,
              <<Chan(36, 5180, {}), Chan(40, 5200, {}),
                Chan(44, 5220, {}), Chan(48, 5240, {})>>,
              [conf EXCEPT !.channel = 11,
                           !.vht_oper_centr_freq_seg0_idx = 7],
              [c \in 1..4 |-> <<Quiet>>]) : conf \in Confs}

StudyInit ==
    /\ \E m \in ScoreInputs \cup ListInputs \cup SelectInputs
                  \cup CommitInputs :
           /\ iface = m.iface
           /\ trace = m.tr
           /\ drv = m.drv
    /\ ret = 0

\* the rest of acs_scan_complete
Study ==
    /\ trace # <<>>
    /\ trace[Len(trace)].e = "hostapd_drv_get_survey"
    /\ \E completed \in Completions :
           Apply([acs_study([iface |-> iface, tr |-> trace, drv |-> drv,
                             rv |-> 0], completed) EXCEPT !.rv = 0])

StudyNext == Study

StudySpec == StudyInit /\ [][StudyNext]_vars

----------------------------------------------------------------------------
(* reading the trace of the last handler *)

Idx(name) == {i \in DOMAIN trace : trace[i].e = name}
Has(name) == Idx(name) # {}

\* the handler has returned
Returned == trace # <<>> /\ trace[Len(trace)].e = "return"
InitTrace == Returned /\ trace[1].e = "acs_init"
CallbackTrace == Returned /\ trace[1].e = "acs_scan_complete"
\* the host's call of acs_fail has returned
AbortTrace == Returned /\ trace[1].e = "acs_fail"

ScanRejected ==
    InitTrace /\ \E i \in Idx("hostapd_driver_scan") : ~trace[i].ok
ScanAccepted ==
    InitTrace /\ \E i \in Idx("hostapd_driver_scan") : trace[i].ok

\* the run's terminal states
RunFailed ==
    ScanRejected \/ (CallbackTrace /\ Has("acs_fail")) \/ AbortTrace
RunCommitted == CallbackTrace /\ ~Has("acs_fail")

StoreReset ==
    \A i \in DOMAIN iface.channels :
        /\ iface.channels[i].survey_list = <<>>
        /\ iface.channels[i].min_nf = 0

\* a channel was selected
Selected == \E i \in Idx("acs_find_ideal_chan") : trace[i].c # 0

\* the configuration is the one the handler found on entry
ConfUntouched ==
    /\ iface.conf.channel = trace[1].channel
    /\ iface.conf.vht_oper_centr_freq_seg0_idx = trace[1].seg0

Ht40Minus == iface.conf.ieee80211n /\ iface.conf.secondary_channel = -1

----------------------------------------------------------------------------
(* claims *)

\* C1: whenever a run has terminated, in FAILED or in COMMITTED, every channel
\* of the table has an empty survey list and min_nf = 0.
C1_CleanupLaw == (RunFailed \/ RunCommitted) => StoreReset

\* a run that scored its surveys and failed at the completion check
C1_Witness ==
    RunFailed /\ Has("score") /\ Has("hostapd_acs_completed")

\* C2 as stated: after acs_init and after a run has terminated, the survey
\* list, min_nf and survey_interference_factor are reset on every channel.
C2_FullReset ==
    (InitTrace \/ (CallbackTrace /\ trace[1].pending > 0)) =>
        \A i \in DOMAIN iface.channels :
            /\ iface.channels[i].survey_list = <<>>
            /\ iface.channels[i].min_nf = 0
            /\ iface.channels[i].survey_interference_factor = Ld(0)

\* C2 as amended: after acs_init and after a run has terminated the survey
\* list and min_nf are reset on every channel; survey_interference_factor is
\* not reset, but when a run selects, every channel the selection can read
\* (every channel that took a record) was scored in that run.
C2_ResetButFactor ==
    /\ (InitTrace \/ RunFailed \/ RunCommitted) => StoreReset
    /\ CallbackTrace =>
           \A s \in Idx("acs_find_ideal_chan"),
              g \in Idx("hostapd_drv_get_survey") :
               \A c \in DOMAIN trace[g].dump :
                   trace[g].dump[c] # <<>> /\ g < s =>
                       \E k \in Idx("score") : trace[k].c = c /\ k < s

\* a run starts while a channel still carries the factor of an earlier run
C2_Witness ==
    /\ ScanAccepted
    /\ \E i \in DOMAIN iface.channels :
           iface.channels[i].survey_interference_factor # Ld(0)

\* C3 as stated: with HT40- configured acs_init reports the failure and
\* submits no scan.
C3_InitRejectsHt40Minus ==
    (Ht40Minus /\ InitTrace) =>
        ret = HOSTAPD_CHAN_INVALID /\ ~Has("hostapd_driver_scan")

\* C3 as amended: with HT40- configured acs_init submits the scan as for any
\* configuration and returns what the driver's answer makes it return; the
\* configuration is rejected in the scan-completion callback, where no
\* channel is selected, the configuration is left as it was and the run ends
\* in FAILED without the completion check.
C3_Ht40MinusFailsInCallback ==
    Ht40Minus =>
        /\ InitTrace =>
               /\ Has("hostapd_driver_scan")
               /\ ScanAccepted => ret = HOSTAPD_CHAN_ACS
        /\ CallbackTrace =>
               /\ RunFailed
               /\ ~Selected
               /\ ~Has("hostapd_acs_completed")
               /\ ConfUntouched

\* the HT40- run fails at the selection, after its surveys were scored
C3_Witness ==
    /\ Ht40Minus /\ CallbackTrace /\ Has("score")
    /\ \E i \in Idx("acs_find_ideal_chan") : trace[i].c = 0

\* C4: acs_init returns HOSTAPD_CHAN_INVALID exactly when the driver rejects
\* the scan and HOSTAPD_CHAN_ACS exactly when it accepts it; on rejection
\* the survey store is reset on every channel and the configured channel and
\* center-frequency index are unchanged.
C4_InitStatus ==
    InitTrace =>
        /\ ret = HOSTAPD_CHAN_INVALID <=> ScanRejected
        /\ ret = HOSTAPD_CHAN_ACS <=> ScanAccepted
        /\ ScanRejected => StoreReset /\ ConfUntouched

\* the driver rejects the scan of a run that follows a committed one
C4_Witness ==
    ScanRejected /\ ret = HOSTAPD_CHAN_INVALID /\ iface.conf.channel # 0

\* C5: a run is COMMITTED only if the completion check returned
\* HOSTAPD_CHAN_VALID; after any other value the run is FAILED, acs_fail
\* having run after the check.
C5_CommitOnlyIfValid ==
    CallbackTrace =>
        /\ RunCommitted =>
               \E i \in Idx("hostapd_acs_completed") :
                   trace[i].r = HOSTAPD_CHAN_VALID
        /\ \A i \in Idx("hostapd_acs_completed") :
               trace[i].r # HOSTAPD_CHAN_VALID =>
                   \E j \in Idx("acs_fail") : j > i

\* the completion check answers HOSTAPD_CHAN_ACS and the run fails
C5_Witness ==
    /\ RunFailed
    /\ \E i \in Idx("hostapd_acs_completed") : trace[i].r = HOSTAPD_CHAN_ACS

\* C6: when hostapd_drv_get_survey returns an error in the callback, the run
\* ends in FAILED: no channel is scored, none is selected, the configured
\* channel is not written and the completion check is not called.
C6_RetrievalError ==
    (CallbackTrace /\ \E g \in Idx("hostapd_drv_get_survey") :
                          trace[g].err # 0) =>
        /\ RunFailed
        /\ ~Has("score")
        /\ ~Selected
        /\ ~Has("hostapd_acs_completed")
        /\ ConfUntouched

\* the retrieval fails after the driver has handed over sufficient records
C6_Witness ==
    /\ CallbackTrace
    /\ \E g \in Idx("hostapd_drv_get_survey") :
           /\ trace[g].err # 0
           /\ \A c \in DOMAIN trace[g].dump : trace[g].dump[c] = <<Quiet>>

\* a record lacks the noise floor, the channel time, or both the busy and
\* the rx time
LacksRequired(r) ==
    \/ SURVEY_HAS_NF \notin r.filled
    \/ SURVEY_HAS_CHAN_TIME \notin r.filled
    \/ /\ SURVEY_HAS_CHAN_TIME_BUSY \notin r.filled
       /\ SURVEY_HAS_CHAN_TIME_RX \notin r.filled

\* the survey retrieval succeeded and left a record that lacks a field
CollectedInsufficient ==
    \E g \in Idx("hostapd_drv_get_survey") :
        /\ trace[g].err = 0
        /\ \E c \in DOMAIN trace[g].dump :
               \E s \in DOMAIN trace[g].dump[c] :
                   LacksRequired(trace[g].dump[c][s])

\* C7: if after the survey collection any record lacks the noise floor, the
\* channel time, or both busy and rx time, the run ends in FAILED before any
\* scoring: no survey_interference_factor is written, no channel is
\* selected, and the survey store is reset.
C7_FailFast ==
    (CallbackTrace /\ CollectedInsufficient) =>
        /\ RunFailed
        /\ ~Has("score")
        /\ ~Selected
        /\ ~Has("hostapd_acs_completed")
        /\ StoreReset
        /\ \A i \in DOMAIN iface.channels :
               iface.channels[i].survey_interference_factor = Ld(0)

\* the only insufficient record is the second one of the second channel
C7_Witness ==
    /\ CallbackTrace
    /\ \E g \in Idx("hostapd_drv_get_survey") :
           /\ trace[g].err = 0
           /\ trace[g].dump = <<<<Quiet>>, <<Quiet, NoBusy>>>>

\* the divisor of busy / total for a record
Denominator(r) ==
    IF SURVEY_HAS_CHAN_TIME_TX \in r.filled
    THEN r.channel_time - r.channel_time_tx
    ELSE r.channel_time

\* C8 as stated: for every record that is scored in a run, the divisor of
\* busy / total (the channel time, minus the tx time when it is present) is
\* not zero.
C8_DivisorNotZero ==
    \A k \in Idx("score") :
        \A s \in DOMAIN trace[k].surveys :
            Denominator(trace[k].surveys[s]) # 0

\* C9 as stated: for every sufficient record that is scored (with a divisor
\* that is not zero) the score is at least 10^(nf/5).
C9_ScoreAtLeastFloor ==
    \A k \in Idx("score") :
        \A s \in DOMAIN trace[k].surveys :
            LET r == trace[k].surveys[s]
            IN  (~LacksRequired(r) /\ Denominator(r) # 0) =>
                    LdLe(pow(10, LdDiv(Ld(r.nf), Ld(5))),
                         acs_survey_interference_factor(r, trace[k].min_nf))

\* the candidate record of channel q in the table the selection saw
CandidateAt(s, q) ==
    Candidate([iface EXCEPT !.channels = trace[s].channels], q,
              NChans(iface.conf))

\* C10 as stated: the channel the selection returns is a qualifying
\* candidate, its total is at most the total of every other qualifying
\* candidate, and no qualifying candidate with the same total has a lower
\* index in the table.
C10_LeastTotal ==
    \A s \in Idx("acs_find_ideal_chan") :
        trace[s].c # 0 =>
            /\ CandidateAt(s, trace[s].c).ok
            /\ \A q \in DOMAIN trace[s].channels :
                   (CandidateAt(s, q).ok /\ q # trace[s].c) =>
                       /\ LdLe(CandidateAt(s, trace[s].c).factor,
                               CandidateAt(s, q).factor)
                       /\ CandidateAt(s, q).factor =
                              CandidateAt(s, trace[s].c).factor
                          => trace[s].c <= q

\* the selection returns a candidate whose total is not a number although a
\* candidate with a total that is a number qualifies
C10_Witness ==
    \E s \in Idx("acs_find_ideal_chan") :
        /\ trace[s].c # 0
        /\ CandidateAt(s, trace[s].c).factor = NaN
        /\ \E q \in DOMAIN trace[s].channels :
               CandidateAt(s, q).ok /\ CandidateAt(s, q).factor.k = "fin"

\* the channels of the table the selection saw that are enabled and hold a
\* record
EnabledSurveyed(s) ==
    {q \in DOMAIN trace[s].channels :
        /\ HOSTAPD_CHAN_DISABLED \notin trace[s].channels[q].flag
        /\ trace[s].channels[q].survey_list # <<>>}

\* C11: with a target bandwidth of n sub-channels, the channel the selection
\* returns, at frequency f, has for every j in 1..n-1 an enabled, surveyed
\* channel of the table at exactly f + j*20 MHz.
C11_ContiguousBandwidth ==
    \A s \in Idx("acs_find_ideal_chan") :
        trace[s].c # 0 =>
            \A j \in 1..(NChans(iface.conf) - 1) :
                \E q \in EnabledSurveyed(s) :
                    trace[s].channels[q].freq =
                        trace[s].channels[trace[s].c].freq + (j * 20)

\* a channel whose own factor is the lowest of the table lacks the channel
\* 20 MHz above it and another channel is returned
C11_Witness ==
    \E s \in Idx("acs_find_ideal_chan") :
        /\ trace[s].c # 0
        /\ NChans(iface.conf) = 2
        /\ \E q \in EnabledSurveyed(s) :
               /\ ~CandidateAt(s, q).ok
               /\ \A w \in EnabledSurveyed(s) \ {q} :
                      LdLt(trace[s].channels[q].survey_interference_factor,
                           trace[s].channels[w].survey_interference_factor)
               /\ \A w \in DOMAIN trace[s].channels :
                      trace[s].channels[w].freq #
                          trace[s].channels[q].freq + 20

\* the callback that has returned was called for an outstanding scan
RunCallback == CallbackTrace /\ trace[1].pending > 0

\* VHT is enabled with a channel width beyond 80 MHz
VhtBeyond80 ==
    iface.conf.ieee80211ac /\ iface.conf.vht_oper_chwidth > VHT_CHANWIDTH_80MHZ

\* C12 as stated: a run configured with HT40- or with a VHT width beyond
\* 80 MHz ends in FAILED whenever its callback returns, never in COMMITTED.
C12_UnsupportedAlwaysFails ==
    (RunCallback /\ (Ht40Minus \/ VhtBeyond80)) => RunFailed

\* a run configured with a VHT width beyond 80 MHz has selected a channel,
\* written it and ended in COMMITTED
C12_Witness ==
    /\ VhtBeyond80 /\ RunCallback /\ RunCommitted /\ Selected
    /\ \E i \in Idx("hostapd_acs_completed") :
           /\ trace[i].r = HOSTAPD_CHAN_VALID
           /\ iface.conf.channel = trace[i].channel
           /\ iface.conf.channel # 0

\* C13 as stated: acs_init resets the survey store and submits a scan only
\* when no scan of an earlier run is outstanding, and at no point are two
\* scans outstanding on the interface.
C13_SingleFlight ==
    /\ drv.pending <= 1
    /\ (InitTrace /\ Has("hostapd_driver_scan")) => trace[1].pending = 0

\* acs_init has run while a scan was outstanding, the driver took the second
\* scan too, and two scans are outstanding
C13_Witness ==
    ScanAccepted /\ trace[1].pending = 1 /\ drv.pending = 2

\* what acs_fail itself leaves in the trace, and the handler's return
FailureHandling ==
    {[e |-> "acs_fail"], [e |-> "wpa_printf", msg |-> "ACS: Failed to start"],
     [e |-> "acs_cleanup"], [e |-> "return"]}

\* C14 as stated: in a callback that ends in FAILED acs_fail is entered
\* exactly once, and after it nothing but its own failure handling happens
\* before the callback returns.
C14_FailOnce ==
    (RunCallback /\ RunFailed) =>
        /\ Cardinality(Idx("acs_fail")) = 1
        /\ \A i \in Idx("acs_fail") :
               \A j \in DOMAIN trace : j > i => trace[j] \in FailureHandling

\* the survey retrieval failed, and acs_fail ran before and after the study
C14_Witness ==
    /\ RunCallback
    /\ \E g \in Idx("hostapd_drv_get_survey") : trace[g].err # 0
    /\ Cardinality(Idx("acs_fail")) = 2
    /\ \E i \in DOMAIN trace :
           trace[i] = [e |-> "wpa_printf",
                       msg |-> "ACS: All study options have failed"]

\* after the survey collection no channel is both enabled and surveyed
NoneUsable ==
    \E g \in Idx("hostapd_drv_get_survey") :
        \A c \in DOMAIN iface.channels :
            \/ HOSTAPD_CHAN_DISABLED \in iface.channels[c].flag
            \/ trace[g].dump[c] = <<>>

\* C15: when every channel is disabled or no enabled channel holds a record,
\* no channel is selected, the run ends in FAILED and the configured channel
\* is not written; and any channel the selection returns is enabled and holds
\* a record.
C15_NoQualifyingChannel ==
    /\ (CallbackTrace /\ NoneUsable) =>
           ~Selected /\ RunFailed /\ ConfUntouched
    /\ \A s \in Idx("acs_find_ideal_chan") :
           trace[s].c # 0 => trace[s].c \in EnabledSurveyed(s)

\* every channel of the table is disabled and the run has failed
C15_Witness ==
    /\ CallbackTrace /\ RunFailed
    /\ \A c \in DOMAIN iface.channels :
           HOSTAPD_CHAN_DISABLED \in iface.channels[c].flag

\* the configuration asks for 40 MHz on the 5 GHz band
Ht40On5GHz ==
    /\ iface.mode = HOSTAPD_MODE_IEEE80211A
    /\ iface.conf.ieee80211n
    /\ iface.conf.secondary_channel # 0

\* C16: on the 5 GHz band with HT enabled and a non-zero secondary offset,
\* the channel the selection returns has a number in
\* {36, 44, 52, 60, 100, 108, 116, 124, 132, 149, 157, 184, 192}.
C16_PrimaryPlacement ==
    Ht40On5GHz =>
        \A s \in Idx("acs_find_ideal_chan") :
            trace[s].c # 0 =>
                trace[s].channels[trace[s].c].chan \in
                    {36, 44, 52, 60, 100, 108, 116, 124, 132, 149, 157, 184,
                     192}

\* channel 40 and the channel 20 MHz above it are enabled and surveyed, and
\* their factors add up to less than the total of the channel returned
C16_Witness ==
    /\ Ht40On5GHz
    /\ \E s \in Idx("acs_find_ideal_chan") :
           /\ trace[s].c # 0
           /\ \E q, w \in EnabledSurveyed(s) :
                  /\ trace[s].channels[q].chan = 40
                  /\ trace[s].channels[w].freq = trace[s].channels[q].freq + 20
                  /\ LdLt(LdAdd(trace[s].channels[q].survey_interference_factor,
                                trace[s].channels[w].survey_interference_factor),
                          CandidateAt(s, trace[s].c).factor)

\* the factor of the enabled, surveyed channel at freq in the table the
\* selection saw; nothing when there is none
FactorAt(s, freq) ==
    LET at == {q \in EnabledSurveyed(s) : trace[s].channels[q].freq = freq}
    IN  IF at = {} THEN Ld(0)
        ELSE trace[s].channels[CHOOSE q \in at : \A w \in at : q <= w]
                 .survey_interference_factor

RECURSIVE SumAt(_, _)
\* the sum of the factors found at the frequencies of a sequence
SumAt(s, freqs) ==
    IF freqs = <<>> THEN Ld(0)
    ELSE LdAdd(FactorAt(s, Head(freqs)), SumAt(s, Tail(freqs)))

\* the frequencies of the n sub-channels from f on
SubChannels(f, n) == [j \in 1..n |-> f + ((j - 1) * 20)]

\* for each of the n sub-channels from f on, the frequencies 10 and 5 MHz
\* below and above it
Overlapping(f, n) ==
    [k \in 1..(4 * n) |->
        f + (((k - 1) \div 4) * 20) + <<-10, -5, 5, 10>>[((k - 1) % 4) + 1]]

\* C17: the total of a qualifying candidate at frequency f is the sum of the
\* factors of its n sub-channels, plus, on the 2.4 GHz band (modes B and G),
\* for each sub-channel j the factors of the enabled, surveyed channels at
\* f + j*20 - 10, - 5, + 5 and + 10 MHz, a missing channel adding nothing; on
\* any other band nothing is added.
C17_AdjacentPenalty ==
    \A s \in Idx("acs_find_ideal_chan") :
        \A q \in DOMAIN trace[s].channels :
            CandidateAt(s, q).ok =>
                LET f == trace[s].channels[q].freq
                    n == NChans(iface.conf)
                IN  CandidateAt(s, q).factor =
                        IF iface.mode \in {HOSTAPD_MODE_IEEE80211B,
                                           HOSTAPD_MODE_IEEE80211G}
                        THEN LdAdd(SumAt(s, SubChannels(f, n)),
                                   SumAt(s, Overlapping(f, n)))
                        ELSE SumAt(s, SubChannels(f, n))

\* on 2.4 GHz with two sub-channels the channel at 2412 MHz is returned while
\* the channel at 2422 MHz, which overlaps both sub-channels, holds a factor
C17_Witness ==
    /\ iface.mode = HOSTAPD_MODE_IEEE80211G
    /\ NChans(iface.conf) = 2
    /\ \E s \in Idx("acs_find_ideal_chan") :
           /\ trace[s].c # 0
           /\ trace[s].channels[trace[s].c].freq = 2412
           /\ LdLt(Ld(0), FactorAt(s, 2422))
           /\ CandidateAt(s, trace[s].c).factor =
                  LdAdd(LdAdd(FactorAt(s, 2412), FactorAt(s, 2432)),
                        LdAdd(FactorAt(s, 2417),
                              LdAdd(FactorAt(s, 2422), FactorAt(s, 2422))))

\* the center-frequency index the claim gives for the channel number chan
ExpectedSeg0(chan) ==
    IF iface.conf.ieee80211ac
          /\ iface.conf.vht_oper_chwidth = VHT_CHANWIDTH_USE_HT
    THEN chan + 2
    ELSE IF iface.conf.ieee80211ac
               /\ iface.conf.vht_oper_chwidth = VHT_CHANWIDTH_80MHZ
         THEN chan + 6
    ELSE trace[1].seg0

\* C18: once a channel is selected, the configured channel is the selected
\* channel's number, and the center-frequency index is channel + 2 with VHT
\* and the use-HT width, channel + 6 with VHT and the 80 MHz width, and the
\* value it had on entry otherwise; the completion check sees these values
\* and the callback returns with them.
C18_CommitWrite ==
    CallbackTrace =>
        \A s \in Idx("acs_find_ideal_chan") :
            trace[s].c # 0 =>
                LET chan == trace[s].channels[trace[s].c].chan
                IN  /\ iface.conf.channel = chan
                    /\ iface.conf.vht_oper_centr_freq_seg0_idx =
                           ExpectedSeg0(chan)
                    /\ \A i \in Idx("hostapd_acs_completed") :
                           /\ trace[i].channel = chan
                           /\ trace[i].seg0 = ExpectedSeg0(chan)

\* with VHT and the 80 MHz width channel 36 is written over an earlier
\* channel and the index becomes 42
C18_Witness ==
    /\ CallbackTrace /\ Selected
    /\ trace[1].channel = 11 /\ trace[1].seg0 = 7
    /\ iface.conf.ieee80211ac
    /\ iface.conf.vht_oper_chwidth = VHT_CHANWIDTH_80MHZ
    /\ iface.conf.channel = 36
    /\ iface.conf.vht_oper_centr_freq_seg0_idx = 42

\* every event named `first` comes before every event named `then`
Before(first, then) ==
    \A i \in Idx(first), j \in Idx(then) : i < j

\* C19: when the callback of an outstanding run returns, the survey
\* retrieval, the scoring, the selection and the commit have happened in
\* that order within this invocation as far as the run got, and the run is
\* terminal: either acs_fail ran or the completion check returned
\* HOSTAPD_CHAN_VALID, the store is reset, and the run is not left with
\* surveys collected, scored, or a channel selected and not committed.
C19_RunToCompletion ==
    RunCallback =>
        /\ Cardinality(Idx("hostapd_drv_get_survey")) = 1
        /\ Before("hostapd_drv_get_survey", "score")
        /\ Before("hostapd_drv_get_survey", "acs_find_ideal_chan")
        /\ Before("score", "acs_find_ideal_chan")
        /\ Before("acs_find_ideal_chan", "hostapd_acs_completed")
        /\ \/ Has("acs_fail")
           \/ \E i \in Idx("hostapd_acs_completed") :
                  trace[i].r = HOSTAPD_CHAN_VALID
        /\ Has("score") => Has("acs_find_ideal_chan")
        /\ Selected => Has("hostapd_acs_completed")
        /\ trace[Len(trace) - 1].e = "acs_cleanup"
        /\ StoreReset
        /\ iface.chans_surveyed = 0

\* one invocation has collected, scored, selected and committed
C19_Witness ==
    /\ RunCallback /\ RunCommitted /\ Selected
    /\ Has("score")
    /\ \E i \in Idx("hostapd_acs_completed") : trace[i].r = HOSTAPD_CHAN_VALID

\* C20: a handler that returns with the configured channel or the
\* center-frequency index changed is a callback that selected a channel and
\* reached the completion check; a run that fails at the scan submission, the
\* survey retrieval, the study or the selection leaves both as they were.
C20_WriteOnlyAtCommit ==
    /\ (InitTrace /\ ~ConfUntouched) => FALSE
    /\ (CallbackTrace /\ ~ConfUntouched) =>
           Selected /\ Has("hostapd_acs_completed")
    /\ ScanRejected => ConfUntouched
    /\ (CallbackTrace /\ ~Has("hostapd_acs_completed")) => ConfUntouched

\* surveys were scored and no channel qualified, on an interface whose
\* configured channel stays as it was on entry
C20_Witness ==
    /\ RunCallback /\ RunFailed /\ Has("score")
    /\ \E s \in Idx("acs_find_ideal_chan") : trace[s].c = 0
    /\ ~Ht40Minus
    /\ ConfUntouched

\* C21 as stated: when acs_init returns, whether the driver accepted or
\* rejected the scan, every frequency list acs_request_scan allocated has
\* been freed.
C21_FreqsFreed ==
    InitTrace =>
        \A a \in Idx("os_malloc") :
            trace[a].ok => \E f \in Idx("os_free") : a < f

\* the driver rejected the scan and acs_init returned with the frequency
\* list allocated and not freed
C21_Witness ==
    /\ ScanRejected /\ ret = HOSTAPD_CHAN_INVALID
    /\ Has("os_malloc") /\ ~Has("os_free")

\* the callback that has returned was called while no scan was outstanding
StrayCallback == CallbackTrace /\ trace[1].pending = 0

\* C22 as stated: a scan-completion event delivered while no run is
\* outstanding selects no channel, leaves the configured channel and the
\* center-frequency index as they were, and does not call the completion
\* check.
C22_StrayEventIgnored ==
    StrayCallback =>
        /\ ~Selected
        /\ ConfUntouched
        /\ ~Has("hostapd_acs_completed")

\* after a run has written its channel, a further event with no scan
\* outstanding scores the surveys, selects a channel and calls the
\* completion check again
C22_Witness ==
    /\ StrayCallback
    /\ trace[1].channel # 0
    /\ Has("score") /\ Selected
    /\ Has("hostapd_acs_completed")

====
